---- MODULE Spec2Model ----
(***************************************************************************)
(* The Ledger Service of the expense tracker (src/ExpenseContext.js): the  *)
(* receipt collection held in React state, the derived category list, the  *)
(* loading flag, and the durable copy kept in AsyncStorage under the key   *)
(* 'receipts'.                                                             *)
(*                                                                         *)
(* Every handler of the provider is an async function that reads the       *)
(* `receipts` of the render it was created in, computes the new collection *)
(* synchronously, calls AsyncStorage and suspends at its `await`.  A call  *)
(* is therefore modelled in two steps: the synchronous part, which puts a  *)
(* request in `pending`, and the settlement of the request, which runs the *)
(* continuation after the `await` (or the catch/finally blocks).           *)
(* AsyncStorage serves its requests one at a time in the order they were   *)
(* made, so `pending` is a FIFO queue and only its head can settle.        *)
(*                                                                         *)
(* setReceipts commits the new `receipts` with the categories of the       *)
(* previous collection; the effect useEffect(calculateCategories,          *)
(* [receipts]) runs after that commit and its setCategories is a second    *)
(* commit (Recompute).  React runs the effect before it handles the next   *)
(* event or continuation, so no handler step comes between the two.        *)
(*                                                                         *)
(* A receipt is a function from field names to values (a JS object): its   *)
(* DOMAIN is the set of own keys, and a key may hold `undefined`.          *)
(* Amounts are whole currency units; dates are millisecond timestamps (the *)
(* ISO-8601 strings of the source order the same way).                     *)
(*                                                                         *)
(* Spec is the provider under any sequence of calls of its handlers.       *)
(* FairSpec adds that AsyncStorage answers the pending read.  CategorySpec *)
(* applies calculateCategories to any collection.  FormSpec puts the       *)
(* manual entry screen (src/ManualEntryScreen.js) on top of the provider:  *)
(* the form is edited, validated by handleSave and saved through           *)
(* addReceipt or updateReceipt.                                            *)
(***************************************************************************)
EXTENDS Integers, Sequences, FiniteSets, TLC

\* receipts, categories, loading: the three useState cells of ExpenseProvider
\* storage: the item 'receipts' of AsyncStorage (Null while never written)
\* pending: the getItem / setItem requests awaited by suspended handlers
\* now:     the reading of the wall clock (Date.now())
\* calls:   history, the number of handler calls made so far
\* last:    history, the request settled last, whether AsyncStorage resolved
\*          it (ok), whether the handler threw to its caller (raised), and the
\*          length of the collection it settled on
\* saved:   history, the collection handed to the last setItem that resolved
\* form:    the manual entry screen (src/ManualEntryScreen.js): whether it is
\*          mounted (open), route.params.receiptId, its useState cells
\*          merchant, date, selectedCategory, paymentMethod and products,
\*          the message of the alert it showed last ("" after none), and
\*          (history) the number of edits made since its first save was issued
\* filters: the listing screen (AllReceiptsScreen, src/unnamed/part_000): its
\*          useState cells searchQuery, selectedCategory, selectedType,
\*          startDate, endDate, minAmount and maxAmount
\* report:  the report screen (src/ReportScreen.js): its useState cells
\*          startDate, endDate, selectedCategories and reportPreview, and the
\*          message of the alert it showed last ("" after none)
\* effectDue: the effect of [receipts] (ExpenseContext.js lines 93-95) is
\*          scheduled: a collection was committed and the effect has not run
VARIABLES receipts, categories, effectDue, loading, storage, pending, now, calls, last,
          saved, form, filters, report

vars == <<receipts, categories, effectDue, loading, storage, pending, now, calls, last,
          saved, form, filters, report>>

-----------------------------------------------------------------------------
(* Bounds of the model *)

MaxPending == 2
MaxClock == 2
MaxCalls == 2

\* receipts in a collection handed to calculateCategories on its own
MaxCollection == 2

\* product lines on the manual entry form
MaxLines == 2

\* edits of the manual entry form after its first save was issued
MaxEdits == 1

-----------------------------------------------------------------------------
(* JavaScript values *)

Undefined == "undefined"

Null == [json |-> "null"]

StringFields == {"name", "category", "paymentMethod", "type", "status"}

\* obj[k] === undefined for an own key k
IsUndefined(obj, k) == k \in StringFields /\ obj[k] = Undefined

\* the key is present and carries a value
Defined(obj, k) == k \in DOMAIN obj /\ ~IsUndefined(obj, k)

\* { ...a, ...b }
Spread(a, b) ==
  [k \in DOMAIN a \cup DOMAIN b |-> IF k \in DOMAIN b THEN b[k] ELSE a[k]]

StringifyObjectRequiredOnly(obj) ==
  [k \in {f \in DOMAIN obj : ~IsUndefined(obj, f) /\ f # "paymentMethod"} |-> obj[k]]

\* JSON.stringify of an array of objects: a key whose value is undefined is
\* left out of the text
StringifyObject(obj) == [k \in {f \in DOMAIN obj : ~IsUndefined(obj, f)} |-> obj[k]]

JSON_stringify(arr) ==
  [json |-> "array", items |-> [i \in 1..Len(arr) |-> StringifyObject(arr[i])]]

JSON_parse(text) == text.items

\* two objects read the same on every field (an absent key reads undefined)
SameFields(a, b) ==
  \A k \in DOMAIN a \cup DOMAIN b :
    /\ Defined(a, k) <=> Defined(b, k)
    /\ Defined(a, k) => a[k] = b[k]

SameCollection(xs, ys) ==
  /\ Len(xs) = Len(ys)
  /\ \A i \in 1..Len(xs) : SameFields(xs[i], ys[i])

-----------------------------------------------------------------------------
(* The category list *)

InitialCategories ==
  << [name |-> "Alimentos", percentage |-> 0, amount |-> 0, color |-> "#6B7FED"],
     [name |-> "Transporte", percentage |-> 0, amount |-> 0, color |-> "#A855F7"],
     [name |-> "Equipo de oficina", percentage |-> 0, amount |-> 0, color |-> "#EC4899"],
     [name |-> "Servicios", percentage |-> 0, amount |-> 0, color |-> "#F59E0B"],
     [name |-> "Otros", percentage |-> 0, amount |-> 0, color |-> "#10B981"] >>

\* Math.round of the non-negative quotient num / den
MathRound(num, den) == (2 * num + den) \div (2 * den)

\* The pairs <<x, total>> with x <= total <= 600 for which the double
\* (x / total) * 100 falls just below k + 0.5 although 100 * x / total is
\* exactly k + 0.5 (23 / 40 * 100 is 57.49999999999999); for every other pair
\* of integers in that range the double rounds as the exact quotient does
FloatTieLost ==
  { <<23, 40>>, <<46, 80>>, <<69, 120>>, <<92, 160>>, <<29, 200>>, <<57, 200>>,
    <<113, 200>>, <<115, 200>>, <<138, 240>>, <<161, 280>>, <<184, 320>>,
    <<207, 360>>, <<58, 400>>, <<114, 400>>, <<226, 400>>, <<230, 400>>,
    <<253, 440>>, <<276, 480>>, <<299, 520>>, <<322, 560>>, <<87, 600>>,
    <<171, 600>>, <<339, 600>>, <<345, 600>> }

\* Math.round((x / total) * 100), the division and the product in doubles
RoundedPercent(x, total) ==
  IF <<x, total>> \in FloatTieLost
  THEN MathRound(x * 100, total) - 1
  ELSE MathRound(x * 100, total)

\* receipts.reduce((sum, r) => sum + r.amount, 0)
RECURSIVE SumAmounts(_)
SumAmounts(rs) ==
  IF rs = <<>> THEN 0
  ELSE SumAmounts(SubSeq(rs, 1, Len(rs) - 1)) + rs[Len(rs)].amount

\* categoryTotals[name] after the forEach, 0 when the key was never set
RECURSIVE CategoryTotal(_, _)
CategoryTotal(rs, name) ==
  IF rs = <<>> THEN 0
  ELSE CategoryTotal(SubSeq(rs, 1, Len(rs) - 1), name)
       + (IF rs[Len(rs)].category = name THEN rs[Len(rs)].amount ELSE 0)

calculateCategories(rs, cats) ==
  LET total == SumAmounts(rs)
  IN  [i \in 1..Len(cats) |->
        [cats[i] EXCEPT
           !.amount = CategoryTotal(rs, cats[i].name),
           !.percentage = IF total > 0
                          THEN RoundedPercent(CategoryTotal(rs, cats[i].name), total)
                          ELSE 0]]

-----------------------------------------------------------------------------
(* Inputs *)

\* a purchase date typed by the user: any date, here one after every clock reading
UserDate == MaxClock + 1

\* receiptData as built by the manual entry form; the payment method field of
\* the form is '' when none was picked
ReceiptData(amount, category, payment) ==
  [name |-> "Market", amount |-> amount, category |-> category, date |-> UserDate,
   paymentMethod |-> IF payment = "" THEN Undefined ELSE payment,
   products |-> <<[name |-> "Pan", price |-> amount, quantity |-> 1]>>,
   type |-> "Manual", status |-> "Procesado"]

\* an object passed to addReceipt that already carries an id and another status
ReceiptWithId ==
  [name |-> "Taxi", amount |-> 50, category |-> "Transporte", date |-> UserDate,
   id |-> 0, status |-> "Pendiente", type |-> "Manual"]

ReceiptInputs ==
  {ReceiptData(100, "Alimentos", ""), ReceiptData(50, "Transporte", "Efectivo"),
   ReceiptWithId}

\* the edit form sends a whole receiptData; the API also takes a partial object
Patches == {ReceiptData(50, "Transporte", ""), [amount |-> 50]}

\* ids the screens hold: of the stored receipt, of a created one, of none
Ids == 0..MaxClock

\* what an earlier run of the application may have left in AsyncStorage
StoredReceipt ==
  [name |-> "Market", amount |-> 100, category |-> "Alimentos", date |-> 0,
   products |-> <<[name |-> "Pan", price |-> 100, quantity |-> 1]>>,
   type |-> "Manual", status |-> "Procesado", id |-> 0]

InitialStorage == {Null, JSON_stringify(<<StoredReceipt>>)}

\* { name: '', price: 0, quantity: 1 }
EmptyProduct == [name |-> "", price |-> 0, quantity |-> 1]

\* selectedCategory before a category is picked (null, falsy as '' is)
NoCategory == ""

\* the filter cells of the listing screen as useState initialises them
NoFilters ==
  [searchQuery |-> "", selectedCategory |-> "Todas", selectedType |-> "Todas",
   startDate |-> "", endDate |-> "", minAmount |-> "", maxAmount |-> ""]

\* reportPreview before a report was generated (null)
NoPreview == [json |-> "null"]

\* the cells of the report screen as useState initialises them
InitialReport ==
  [startDate |-> "", endDate |-> "", selectedCategories |-> <<"Todas">>,
   reportPreview |-> NoPreview, alert |-> ""]

\* the screen is not mounted
ClosedForm ==
  [open |-> FALSE, receiptId |-> 0, merchant |-> "", date |-> "",
   selectedCategory |-> NoCategory, paymentMethod |-> "",
   products |-> <<EmptyProduct>>, alert |-> "", edits |-> 0]

-----------------------------------------------------------------------------
(* Requests to AsyncStorage *)

\* A request records the call that made it: `caller`, `id` and `arg` are the
\* handler and its arguments, `newReceipts` and `value` the collection and the
\* text handed to saveReceipts and to setItem.  `base`, `seen` and `loading`
\* are history: the `receipts` the handler read, the last persisted collection
\* and the loading flag at the time of the call.

NoArg == [none |-> TRUE]

GetItem(caller) ==
  [api |-> "getItem", caller |-> caller, id |-> 0, arg |-> NoArg,
   base |-> <<>>, seen |-> saved, loading |-> loading, newReceipts |-> <<>>,
   value |-> Null]

\* saveReceipts up to its await: the text is built before the call suspends
SetItem(caller, id, arg, newReceipts) ==
  [api |-> "setItem", caller |-> caller, id |-> id, arg |-> arg,
   base |-> receipts, seen |-> saved, loading |-> loading, newReceipts |-> newReceipts,
   value |-> JSON_stringify(newReceipts)]

Mutators == {"addReceipt", "updateReceipt", "deleteReceipt", "clearAllReceipts"}

\* setReceipts(rs): the commit keeps the categories of the previous render
SetReceipts(rs) ==
  /\ receipts' = rs
  /\ effectDue' = TRUE
  /\ UNCHANGED categories

-----------------------------------------------------------------------------
(* State after the provider is mounted: the mount effect has called        *)
(* loadReceipts, which is suspended at getItem.                            *)

Init ==
  /\ receipts = <<>>
  /\ categories = InitialCategories
  /\ effectDue = FALSE
  /\ loading = TRUE
  /\ storage \in InitialStorage
  /\ saved = [some |-> FALSE, value |-> <<>>]
  /\ now = 1
  /\ pending = <<GetItem("loadReceipts")>>
  /\ calls = 0
  /\ last = [caller |-> "none", id |-> 0, ok |-> TRUE, raised |-> FALSE, size |-> 0]
  /\ form = ClosedForm
  /\ filters = NoFilters
  /\ report = InitialReport

-----------------------------------------------------------------------------
(* Handlers, up to their await *)

\* the wall clock advances
Tick ==
  /\ ~effectDue
  /\ now < MaxClock
  /\ now' = now + 1
  /\ UNCHANGED <<receipts, categories, effectDue, loading, storage, pending, calls, last, saved,
                 form, filters, report>>

\* a handler runs up to its await; the clock reads `later` when it suspends
CallAt(req, later) ==
  /\ ~effectDue
  /\ Len(pending) < MaxPending
  /\ calls < MaxCalls
  /\ pending' = Append(pending, req)
  /\ calls' = calls + 1
  /\ now' = later
  /\ UNCHANGED <<receipts, categories, effectDue, loading, storage, last, saved, form,
                 filters, report>>

Call(req) == CallAt(req, now)

NewReceiptInputWins(receipt, later) ==
  Spread([id |-> now, date |-> later, status |-> "Procesado"], receipt)

\* Date.now() reads `now`, new Date() on the next line reads `later`
NewReceipt(receipt, later) ==
  Spread(receipt, [id |-> now, date |-> later, status |-> "Procesado"])

addReceiptAtEnd(receipt, later) == receipts \o <<NewReceipt(receipt, later)>>

addReceiptCollection(receipt, later) == <<NewReceipt(receipt, later)>> \o receipts

\* addReceipt(receipt) up to its await, the second clock reading being `later`
addReceiptCall(receipt, later) ==
  CallAt(SetItem("addReceipt", now, receipt, addReceiptCollection(receipt, later)), later)

addReceipt ==
  \E receipt \in ReceiptInputs, later \in now..MaxClock : addReceiptCall(receipt, later)

\* receipts.filter(r => r.id !== id)
RECURSIVE FilterOutId(_, _)
FilterOutId(rs, id) ==
  IF rs = <<>> THEN <<>>
  ELSE IF rs[1].id # id THEN <<rs[1]>> \o FilterOutId(Tail(rs), id)
  ELSE FilterOutId(Tail(rs), id)

deleteReceiptKeepsMatch(rs, id) == SelectSeq(rs, LAMBDA r : r.id = id)

deleteReceiptCollection(rs, id) == FilterOutId(rs, id)

deleteReceipt ==
  \E id \in Ids :
    Call(SetItem("deleteReceipt", id, NoArg, deleteReceiptCollection(receipts, id)))

updateReceiptOldWins(rs, id, updatedData) ==
  [i \in 1..Len(rs) |-> IF rs[i].id = id THEN Spread(updatedData, rs[i]) ELSE rs[i]]

updateReceiptUpsert(rs, id, updatedData) ==
  IF \E i \in 1..Len(rs) : rs[i].id = id
    THEN [i \in 1..Len(rs) |-> IF rs[i].id = id THEN Spread(rs[i], updatedData) ELSE rs[i]]
    ELSE Append(rs, Spread([id |-> id, amount |-> 0, category |-> "Otros"], updatedData))

\* receipts.map(r => r.id === id ? { ...r, ...updatedData } : r)
updateReceiptCollection(rs, id, updatedData) ==
  [i \in 1..Len(rs) |-> IF rs[i].id = id THEN Spread(rs[i], updatedData) ELSE rs[i]]

updateReceipt ==
  \E id \in Ids, updatedData \in Patches :
    Call(SetItem("updateReceipt", id, updatedData,
                 updateReceiptCollection(receipts, id, updatedData)))

clearAllKeep(rs) == rs

clearAllCollection(rs) == <<>>

clearAllReceipts ==
  Call(SetItem("clearAllReceipts", 0, NoArg, clearAllCollection(receipts)))

\* refreshReceipts is loadReceipts
refreshReceipts == Call(GetItem("refreshReceipts"))

-----------------------------------------------------------------------------
(* Settlement of the request at the head of the queue *)

\* handleSave after its await, when the screen made the request: the alert
\* of the try block, or the one of the catch block when the promise rejected
AfterAwait(req, ok) ==
  IF form.open /\ req.api = "setItem"
    THEN [form EXCEPT !.alert =
            IF ~ok THEN "No se pudo guardar el recibo"
            ELSE IF form.receiptId # 0 THEN "Recibo actualizado correctamente"
            ELSE "Gasto guardado correctamente"]
    ELSE form

Settle(ok, raised) ==
  /\ ~effectDue
  /\ pending' = Tail(pending)
  /\ last' = [caller |-> Head(pending).caller, id |-> Head(pending).id, ok |-> ok,
              raised |-> raised, size |-> Len(receipts)]
  /\ form' = AfterAwait(Head(pending), ok)
  /\ UNCHANGED <<filters, report>>
  /\ UNCHANGED <<now, calls>>

\* getItem resolves: the try block and the finally block of loadReceipts
LoadResolve ==
  /\ pending # <<>>
  /\ Head(pending).api = "getItem"
  /\ IF storage # Null
       THEN SetReceipts(JSON_parse(storage))
       ELSE UNCHANGED <<receipts, categories, effectDue>>
  /\ loading' = FALSE
  /\ UNCHANGED <<storage, saved>>
  /\ Settle(TRUE, FALSE)

LoadRejectNoFinally ==
  /\ pending # <<>>
  /\ Head(pending).api = "getItem"
  /\ UNCHANGED <<receipts, categories, effectDue, loading, storage, saved>>
  /\ Settle(FALSE, FALSE)

LoadRejectRetries ==
  /\ ~effectDue
  /\ pending # <<>>
  /\ Head(pending).api = "getItem"
  /\ loading' = FALSE
  /\ pending' = Append(Tail(pending), GetItem("loadReceipts"))
  /\ last' = [caller |-> Head(pending).caller, id |-> 0, ok |-> FALSE,
              raised |-> FALSE, size |-> Len(receipts)]
  /\ UNCHANGED <<receipts, categories, effectDue, storage, saved, now, calls, form, filters, report>>

\* getItem rejects (or JSON.parse throws): the catch block, which only logs,
\* and the finally block of loadReceipts
LoadReject ==
  /\ pending # <<>>
  /\ Head(pending).api = "getItem"
  /\ loading' = FALSE
  /\ UNCHANGED <<receipts, categories, effectDue, storage, saved>>
  /\ Settle(FALSE, FALSE)

SaveResolveStoreOnly ==
  /\ pending # <<>>
  /\ Head(pending).api = "setItem"
  /\ storage' = Head(pending).value
  /\ saved' = [some |-> TRUE, value |-> Head(pending).newReceipts]
  /\ UNCHANGED <<receipts, categories, effectDue, loading>>
  /\ Settle(TRUE, FALSE)

\* setItem resolves: saveReceipts sets the state and the caller's await returns
SaveResolve ==
  /\ pending # <<>>
  /\ Head(pending).api = "setItem"
  /\ storage' = Head(pending).value
  /\ SetReceipts(Head(pending).newReceipts)
  /\ saved' = [some |-> TRUE, value |-> Head(pending).newReceipts]
  /\ UNCHANGED loading
  /\ Settle(TRUE, FALSE)

SaveRejectStateFirst ==
  /\ pending # <<>>
  /\ Head(pending).api = "setItem"
  /\ SetReceipts(Head(pending).newReceipts)
  /\ UNCHANGED <<loading, storage, saved>>
  /\ Settle(FALSE, TRUE)

\* setItem rejects: saveReceipts logs and rethrows, the caller's promise rejects
SaveReject ==
  /\ pending # <<>>
  /\ Head(pending).api = "setItem"
  /\ UNCHANGED <<receipts, categories, effectDue, loading, storage, saved>>
  /\ Settle(FALSE, TRUE)

-----------------------------------------------------------------------------
(* The effect of lines 93-95, run after every commit of a new `receipts`   *)

\* useEffect(() => calculateCategories(), [receipts])
Recompute ==
  /\ effectDue
  /\ categories' = calculateCategories(receipts, categories)
  /\ effectDue' = FALSE
  /\ UNCHANGED <<receipts, loading, storage, pending, now, calls, last, saved, form,
                 filters, report>>

Next ==
  \/ Tick
  \/ addReceipt
  \/ deleteReceipt
  \/ updateReceipt
  \/ clearAllReceipts
  \/ refreshReceipts
  \/ LoadResolve
  \/ LoadReject
  \/ SaveResolve
  \/ SaveReject
  \/ Recompute

Spec == Init /\ [][Next]_vars

\* AsyncStorage settles every request: an awaited getItem resolves or rejects;
\* React runs the effects of a commit
FairSpec == Spec /\ WF_vars(LoadResolve \/ LoadReject) /\ WF_vars(Recompute)

-----------------------------------------------------------------------------
(* calculateCategories on its own: the render after setReceipts, in which  *)
(* the effect of line 93 has not run yet, for any collection               *)

CategoryAmounts == {17, 23, 50, 100}

CategoryReceipts ==
  { Spread(ReceiptData(a, InitialCategories[i].name, "Efectivo"), [id |-> 1, date |-> 1]) :
      a \in CategoryAmounts, i \in 1..Len(InitialCategories) }

Collections == UNION { [1..n -> CategoryReceipts] : n \in 0..MaxCollection }

CategoryInit ==
  /\ receipts \in Collections
  /\ categories = InitialCategories
  /\ effectDue = TRUE
  /\ loading = FALSE
  /\ storage = JSON_stringify(receipts)
  /\ pending = <<>>
  /\ now = 1
  /\ calls = 0
  /\ last = [caller |-> "none", id |-> 0, ok |-> TRUE, raised |-> FALSE, size |-> 0]
  /\ saved = [some |-> FALSE, value |-> <<>>]
  /\ form = ClosedForm
  /\ filters = NoFilters
  /\ report = InitialReport

CategoryNext == Recompute

CategorySpec == CategoryInit /\ [][CategoryNext]_vars

-----------------------------------------------------------------------------
(* The manual entry screen on top of the provider.  The screen is opened   *)
(* on a loaded ledger, blank (create) or for a receipt of the collection   *)
(* (edit); the user fills the form and presses Save, possibly again while  *)
(* the first save is in flight.  The fields can be edited at any time, up  *)
(* to MaxEdits times once a save has passed validation; an alert is        *)
(* dismissed before the next keystroke.                                    *)

\* texts typed in the fields
MerchantTexts == {" ", "Market "}
NameTexts == {"", "Pan"}
PriceTexts == {"", "10"}
QuantityTexts == {"", "2"}
Today == "29/10/2026"
DateTexts == {"abc", "15/01/2027", "32/13/2026"}

\* entries picked in the category and payment method modals
CategoryChoices == {"Alimentos"}
PaymentChoices == {"Efectivo"}

\* String.prototype.trim on those texts
Trim(text) ==
  CASE text = " " -> ""
    [] text = "Market " -> "Market"
    [] OTHER -> text

\* parseFloat(value) || 0 on a typed text
ParseFloatOrZero(text) ==
  CASE text = "10" -> 10
    [] text = "2" -> 2
    [] OTHER -> 0

\* parseFloat(v) || d on a number held in `products`
ParseFloatOr(v, d) == IF v = 0 THEN d ELSE v

\* formatDateInput: the day of the timestamp, every clock reading being today
formatDateInput(date) == IF date = UserDate THEN "15/01/2027" ELSE Today

\* new Date(year, month - 1, day) is a date, so that toISOString returns:
\* the three parts are numbers ("abc" gives NaN); a day or a month out of
\* range carries over into the next month or year
DateParses(text) == text \in {"15/01/2027", "32/13/2026", Today}

\* new Date(year, month - 1, day).toISOString(): the start of that day;
\* new Date(2026, 12, 32) is 1 February 2027
ParsedDate(text) ==
  CASE text = "15/01/2027" -> UserDate
    [] text = "32/13/2026" -> UserDate + 2
    [] OTHER -> 0

\* a receipt of the collection that the screen can be opened on
EditedReceipt == [StoredReceipt EXCEPT !.id = 1]

BlankForm == [ClosedForm EXCEPT !.open = TRUE]

\* the effect that pre-fills the form in edit mode
EditForm(receipt) ==
  [open |-> TRUE, receiptId |-> receipt.id, merchant |-> receipt.name,
   date |-> formatDateInput(receipt.date), selectedCategory |-> receipt.category,
   paymentMethod |-> IF "paymentMethod" \in DOMAIN receipt /\ Defined(receipt, "paymentMethod")
                     THEN receipt.paymentMethod ELSE "",
   products |-> receipt.products, alert |-> "", edits |-> 0]

FormInit ==
  /\ receipts = <<EditedReceipt>>
  /\ categories = calculateCategories(receipts, InitialCategories)
  /\ effectDue = FALSE
  /\ loading = FALSE
  /\ storage = JSON_stringify(receipts)
  /\ pending = <<>>
  /\ now = MaxClock
  /\ calls = 0
  /\ last = [caller |-> "loadReceipts", id |-> 0, ok |-> TRUE, raised |-> FALSE, size |-> 0]
  /\ saved = [some |-> FALSE, value |-> <<>>]
  /\ form \in {BlankForm, EditForm(EditedReceipt)}
  /\ filters = NoFilters
  /\ report = InitialReport

\* a state setter of the screen
SetForm(f) ==
  /\ ~effectDue
  /\ form.open
  /\ calls = 0 \/ form.edits < MaxEdits
  /\ form' = [f EXCEPT !.alert = "",
                       !.edits = IF calls = 0 THEN 0 ELSE form.edits + 1]
  /\ UNCHANGED <<receipts, categories, effectDue, loading, storage, pending, now, calls, last, saved,
                 filters, report>>

setMerchant == \E text \in MerchantTexts : SetForm([form EXCEPT !.merchant = text])

setDate == \E text \in DateTexts : SetForm([form EXCEPT !.date = text])

setSelectedCategory ==
  \E cat \in CategoryChoices : SetForm([form EXCEPT !.selectedCategory = cat])

setPaymentMethod ==
  \E method \in PaymentChoices : SetForm([form EXCEPT !.paymentMethod = method])

handleAddProduct ==
  /\ Len(form.products) < MaxLines
  /\ SetForm([form EXCEPT !.products = Append(form.products, EmptyProduct)])

handleRemoveProduct ==
  \E index \in 1..Len(form.products) :
    /\ Len(form.products) > 1
    /\ SetForm([form EXCEPT !.products =
                  [i \in 1..(Len(form.products) - 1) |->
                     IF i < index THEN form.products[i] ELSE form.products[i + 1]]])

handleProductChange ==
  \E index \in 1..Len(form.products) :
    \/ \E text \in NameTexts :
         SetForm([form EXCEPT !.products[index].name = text])
    \/ \E text \in PriceTexts :
         SetForm([form EXCEPT !.products[index].price = ParseFloatOrZero(text)])
    \/ \E text \in QuantityTexts :
         SetForm([form EXCEPT !.products[index].quantity = ParseFloatOrZero(text)])

\* products.reduce((sum, product) => sum + price * quantity, 0), with
\* price = parseFloat(product.price) || 0, quantity = parseFloat(product.quantity) || 1
RECURSIVE calculateTotal(_)
calculateTotal(products) ==
  IF products = <<>> THEN 0
  ELSE calculateTotal(SubSeq(products, 1, Len(products) - 1))
       + ParseFloatOr(products[Len(products)].price, 0)
         * ParseFloatOr(products[Len(products)].quantity, 1)

\* products.filter(p => p.name.trim())
validProducts(products) == SelectSeq(products, LAMBDA p : Trim(p.name) # "")

\* the object handleSave hands to addReceipt or updateReceipt
receiptData(f) ==
  [name |-> Trim(f.merchant), amount |-> calculateTotal(f.products),
   category |-> f.selectedCategory, date |-> ParsedDate(f.date),
   paymentMethod |-> IF f.paymentMethod = "" THEN Undefined ELSE f.paymentMethod,
   products |-> [i \in 1..Len(validProducts(f.products)) |->
                   [name |-> Trim(validProducts(f.products)[i].name),
                    price |-> ParseFloatOr(validProducts(f.products)[i].price, 0),
                    quantity |-> ParseFloatOr(validProducts(f.products)[i].quantity, 1)]],
   type |-> "Manual", status |-> "Procesado"]

\* Alert.alert('Error', message) and return
Alert(message) ==
  /\ ~effectDue
  /\ form' = [form EXCEPT !.alert = message]
  /\ UNCHANGED <<receipts, categories, effectDue, loading, storage, pending, now, calls, last, saved,
                 filters, report>>

\* handleSave up to its await
handleSave ==
  /\ form.open
  /\ IF Trim(form.merchant) = ""
       THEN Alert("Por favor ingrese el nombre del comerciante/empresa")
     ELSE IF Trim(form.date) = ""
       THEN Alert("Por favor ingrese la fecha")
     ELSE IF form.selectedCategory = NoCategory
       THEN Alert("Por favor seleccione una categoría")
     ELSE IF validProducts(form.products) = <<>>
       THEN Alert("Por favor ingrese al menos un producto")
     ELSE IF calculateTotal(form.products) <= 0
       THEN Alert("El monto total debe ser mayor a 0")
     ELSE IF ~DateParses(form.date)
       THEN Alert("No se pudo guardar el recibo")
     ELSE IF form.receiptId # 0
       THEN Call(SetItem("updateReceipt", form.receiptId, receiptData(form),
                         updateReceiptCollection(receipts, form.receiptId,
                                                 receiptData(form))))
     ELSE \E later \in now..MaxClock : addReceiptCall(receiptData(form), later)

FormNext ==
  \/ setMerchant
  \/ setDate
  \/ setSelectedCategory
  \/ setPaymentMethod
  \/ handleAddProduct
  \/ handleRemoveProduct
  \/ handleProductChange
  \/ handleSave
  \/ SaveResolve
  \/ SaveReject
  \/ Recompute

FormSpec == FormInit /\ [][FormNext]_vars

-----------------------------------------------------------------------------
(* The listing screen (AllReceiptsScreen): filteredReceipts is computed in *)
(* every render from `receipts` and the filter cells.  No control of the   *)
(* screen sets startDate or endDate (clearFilters only empties them), so   *)
(* the two cells hold '' in every state of the screen.                     *)

\* the instants of today: midnight is 0, 23:59:59.000 is LastSecond, and
\* the clock reading MaxClock falls within the second that follows it
Midnight == 0
LastSecond == MaxClock - 1

\* texts held by the date cells: a local date-time at midnight
TodayText == "2026-10-29T00:00"
UserDayText == "2027-01-15T00:00"

\* new Date(text)
NewDate(text) == IF text = UserDayText THEN UserDate ELSE Midnight

\* end.setHours(23, 59, 59) on a date at midnight: the milliseconds stay 0
SetHours235959(date) == IF date <= MaxClock THEN LastSecond ELSE date + 1

\* texts typed in the search box and in the amount boxes
SearchTexts == {"MAR"}
MinTexts == {"abc", "100"}
MaxTexts == {"abc", "50", "50abc"}

\* String.prototype.toLowerCase on the texts in use
ToLowerCase(text) ==
  CASE text = "MAR" -> "mar"
    [] text = "Market" -> "market"
    [] text = "Taxi" -> "taxi"
    [] OTHER -> text

\* String.prototype.includes on the texts in use
Includes(text, part) == part = "" \/ part = text \/ <<text, part>> = <<"market", "mar">>

parseFloatNaNAsZero(text) ==
  CASE text \in {"50", "50abc"} -> [nan |-> FALSE, value |-> 50]
    [] text = "100" -> [nan |-> FALSE, value |-> 100]
    [] OTHER -> [nan |-> FALSE, value |-> 0]

\* parseFloat(text): the number the text starts with, NaN when there is none
parseFloat(text) ==
  CASE text \in {"50", "50abc"} -> [nan |-> FALSE, value |-> 50]
    [] text = "100" -> [nan |-> FALSE, value |-> 100]
    [] OTHER -> [nan |-> TRUE, value |-> 0]

\* a < n and a > n for a number a and a parsed n: false when n is NaN
LessThan(a, n) == ~n.nan /\ a < n.value
GreaterThan(a, n) == ~n.nan /\ a > n.value

receiptTypeAbsentIsFactura(receipt) ==
  IF "type" \in DOMAIN receipt /\ receipt.type # "" THEN receipt.type ELSE "Factura"

\* receipt.type || 'Manual'
receiptType(receipt) ==
  IF "type" \in DOMAIN receipt /\ receipt.type # "" THEN receipt.type ELSE "Manual"

\* the callback of receipts.filter: each failed criterion returns false
ListKeeps(receipt, f) ==
  IF f.searchQuery # ""
     /\ ~Includes(ToLowerCase(receipt.name), ToLowerCase(f.searchQuery)) THEN FALSE
  ELSE IF f.selectedCategory # "Todas" /\ receipt.category # f.selectedCategory THEN FALSE
  ELSE IF f.selectedType # "Todas" /\ receiptType(receipt) # f.selectedType THEN FALSE
  ELSE IF f.startDate # "" /\ receipt.date < NewDate(f.startDate) THEN FALSE
  ELSE IF f.endDate # "" /\ receipt.date > SetHours235959(NewDate(f.endDate)) THEN FALSE
  ELSE IF f.minAmount # "" /\ LessThan(receipt.amount, parseFloat(f.minAmount)) THEN FALSE
  ELSE IF f.maxAmount # "" /\ GreaterThan(receipt.amount, parseFloat(f.maxAmount)) THEN FALSE
  ELSE TRUE

filteredReceiptsFirstOfCategory(rs, f) ==
  LET kept == SelectSeq(rs, LAMBDA r : ListKeeps(r, f))
  IN  IF f.selectedCategory # "Todas" /\ kept # <<>> THEN <<kept[1]>> ELSE kept

\* receipts.filter(receipt => ...)
RECURSIVE filteredReceipts(_, _)
filteredReceipts(rs, f) ==
  IF rs = <<>> THEN <<>>
  ELSE (IF ListKeeps(rs[1], f) THEN <<rs[1]>> ELSE <<>>) \o filteredReceipts(Tail(rs), f)

\* receipts shown in the list: with and without a type, dated at midnight,
\* at 23:59:59.000, within the last second of today, and on another day
ListReceipts ==
  { [id |-> 1, name |-> "Market", amount |-> 100, category |-> "Alimentos",
     date |-> Midnight, type |-> "Manual", status |-> "Procesado"],
    [id |-> 2, name |-> "Taxi", amount |-> 50, category |-> "Transporte",
     date |-> MaxClock, status |-> "Procesado"],
    [id |-> 3, name |-> "Market", amount |-> 50, category |-> "Alimentos",
     date |-> LastSecond, type |-> "Factura", status |-> "Procesado"],
    [id |-> 4, name |-> "Taxi", amount |-> 100, category |-> "Alimentos",
     date |-> UserDate, type |-> "Manual", status |-> "Procesado"] }

ListCollections == UNION { [1..n -> ListReceipts] : n \in 0..MaxCollection }

ListInit ==
  /\ receipts \in ListCollections
  /\ categories = calculateCategories(receipts, InitialCategories)
  /\ effectDue = FALSE
  /\ loading = FALSE
  /\ storage = JSON_stringify(receipts)
  /\ pending = <<>>
  /\ now = MaxClock
  /\ calls = 0
  /\ last = [caller |-> "loadReceipts", id |-> 0, ok |-> TRUE, raised |-> FALSE, size |-> 0]
  /\ saved = [some |-> FALSE, value |-> <<>>]
  /\ form = ClosedForm
  /\ filters = NoFilters
  /\ report = InitialReport

\* a state setter of the listing screen
SetFilters(f) ==
  /\ filters' = f
  /\ UNCHANGED <<receipts, categories, effectDue, loading, storage, pending, now, calls, last, saved,
                 form, report>>

setSearchQuery ==
  \E text \in SearchTexts \cup {""} : SetFilters([filters EXCEPT !.searchQuery = text])

setListCategory ==
  \E category \in {"Todas", "Alimentos"} :
    SetFilters([filters EXCEPT !.selectedCategory = category])

setSelectedType ==
  \E type \in {"Todas", "Factura", "Manual"} :
    SetFilters([filters EXCEPT !.selectedType = type])

setMinAmount ==
  \E text \in MinTexts \cup {""} : SetFilters([filters EXCEPT !.minAmount = text])

setMaxAmount ==
  \E text \in MaxTexts \cup {""} : SetFilters([filters EXCEPT !.maxAmount = text])

clearFilters ==
  SetFilters([filters EXCEPT !.selectedCategory = "Todas", !.selectedType = "Todas",
                             !.startDate = "", !.endDate = "",
                             !.minAmount = "", !.maxAmount = ""])

ListNext ==
  \/ setSearchQuery
  \/ setListCategory
  \/ setSelectedType
  \/ setMinAmount
  \/ setMaxAmount
  \/ clearFilters

ListSpec == ListInit /\ [][ListNext]_vars

-----------------------------------------------------------------------------
(* The report screen (ReportScreen): the categories are toggled and the    *)
(* report is generated from the receipts that pass its filter.  No control *)
(* of the screen sets startDate or endDate, so the two cells hold '' in    *)
(* every state of the screen: generateReport returns at its alert, and     *)
(* reportPreview stays null.                                               *)

\* a JS number that is the quotient of two integers
Number(n) == [num |-> n, den |-> 1]

Quotient(a, b) == [num |-> a, den |-> b]

\* array.includes(x)
InArray(x, array) == \E i \in 1..Len(array) : array[i] = x

\* the callback of receipts.filter in the report screen
ReportKeeps(receipt, rep) ==
  IF /\ rep.startDate # "" /\ rep.endDate # ""
     /\ \/ receipt.date < NewDate(rep.startDate)
        \/ receipt.date > SetHours235959(NewDate(rep.endDate)) THEN FALSE
  ELSE IF /\ ~InArray("Todas", rep.selectedCategories)
          /\ ~InArray(receipt.category, rep.selectedCategories) THEN FALSE
  ELSE TRUE

\* receipts.filter(receipt => ...) of the report screen
RECURSIVE reportFilteredReceipts(_, _)
reportFilteredReceipts(rs, rep) ==
  IF rs = <<>> THEN <<>>
  ELSE (IF ReportKeeps(rs[1], rep) THEN <<rs[1]>> ELSE <<>>)
       \o reportFilteredReceipts(Tail(rs), rep)

depositsAnyType(rs) == SumAmounts(SelectSeq(rs, LAMBDA r : r.amount > 0))

\* filter(r => r.amount > 0 && (r.type === 'Deposit' || false)).reduce(...)
deposits(rs) ==
  SumAmounts(SelectSeq(rs, LAMBDA r : /\ r.amount > 0
                                      /\ "type" \in DOMAIN r
                                      /\ r.type = "Deposit"))

\* receipt.category || 'Otros'
reportCategory(receipt) ==
  IF "category" \in DOMAIN receipt /\ receipt.category # "" THEN receipt.category
  ELSE "Otros"

\* the keys of categoryTotals, in the order the forEach created them
RECURSIVE categoryKeys(_)
categoryKeys(rs) ==
  IF rs = <<>> THEN <<>>
  ELSE LET before == categoryKeys(SubSeq(rs, 1, Len(rs) - 1))
           cat == reportCategory(rs[Len(rs)])
       IN  IF InArray(cat, before) THEN before ELSE Append(before, cat)

\* categoryTotals[cat] after the forEach
RECURSIVE categoryTotal(_, _)
categoryTotal(rs, cat) ==
  IF rs = <<>> THEN 0
  ELSE categoryTotal(SubSeq(rs, 1, Len(rs) - 1), cat)
       + (IF reportCategory(rs[Len(rs)]) = cat THEN rs[Len(rs)].amount ELSE 0)

reportPercentageOfEntries(rs, cat) ==
  IF Len(rs) > 0
    THEN RoundedPercent(Len(SelectSeq(rs, LAMBDA r : reportCategory(r) = cat)), Len(rs))
    ELSE 0

\* totalSpent > 0 ? Math.round((amount / totalSpent) * 100) : 0
reportPercentage(rs, cat) ==
  IF SumAmounts(rs) > 0 THEN RoundedPercent(categoryTotal(rs, cat), SumAmounts(rs)) ELSE 0

\* Object.entries(categoryTotals).map(...)
categoryRows(rs) ==
  [i \in 1..Len(categoryKeys(rs)) |->
     [category |-> categoryKeys(rs)[i],
      amount |-> categoryTotal(rs, categoryKeys(rs)[i]),
      percentage |-> reportPercentage(rs, categoryKeys(rs)[i])]]

sortUnsorted(rows) == rows

\* rows.sort((a, b) => b.amount - a.amount): a stable sort, by insertion
RECURSIVE sortByAmountDescending(_)
sortByAmountDescending(rows) ==
  IF rows = <<>> THEN <<>>
  ELSE LET sorted == sortByAmountDescending(SubSeq(rows, 1, Len(rows) - 1))
           row == rows[Len(rows)]
           ahead == Cardinality({i \in 1..Len(sorted) : sorted[i].amount >= row.amount})
       IN  SubSeq(sorted, 1, ahead) \o <<row>> \o SubSeq(sorted, ahead + 1, Len(sorted))

\* calculateReportData over filteredReceipts
calculateReportData(rs, rep) ==
  [totalSpent |-> SumAmounts(rs),
   entries |-> Len(rs),
   deposits |-> deposits(rs),
   average |-> IF Len(rs) > 0 THEN Quotient(SumAmounts(rs), Len(rs)) ELSE Number(0),
   expensesByCategory |-> sortByAmountDescending(categoryRows(rs)),
   startDate |-> rep.startDate,
   endDate |-> rep.endDate]

newCategoriesMayBeEmpty(prev, category) ==
  IF category = "Todas" THEN <<"Todas">>
  ELSE IF InArray("Todas", prev) THEN <<category>>
  ELSE IF InArray(category, prev) THEN SelectSeq(prev, LAMBDA c : c # category)
  ELSE Append(SelectSeq(prev, LAMBDA c : c # "Todas"), category)

\* the array toggleCategory(category) hands to setSelectedCategories
newCategories(prev, category) ==
  IF category = "Todas" THEN <<"Todas">>
  ELSE LET toggled ==
             IF InArray("Todas", prev) THEN <<category>>
             ELSE IF InArray(category, prev) THEN SelectSeq(prev, LAMBDA c : c # category)
             ELSE Append(SelectSeq(prev, LAMBDA c : c # "Todas"), category)
       IN  IF Len(toggled) = 0 THEN <<"Todas">> ELSE toggled

\* the entries of the category checklist
ReportCategories ==
  {"Todas", "Alimentos", "Transporte", "Equipo de oficina", "Servicios", "Otros"}

ReportReceipts ==
  { [id |-> 1, name |-> "Market", amount |-> 100, category |-> "Alimentos",
     date |-> Midnight, type |-> "Manual", status |-> "Procesado"],
    [id |-> 2, name |-> "Taxi", amount |-> 50, category |-> "Transporte",
     date |-> MaxClock, type |-> "Manual", status |-> "Procesado"],
    [id |-> 3, name |-> "Papel", amount |-> 50, category |-> "Equipo de oficina",
     date |-> LastSecond, type |-> "Manual", status |-> "Procesado"],
    [id |-> 4, name |-> "Luz", amount |-> 100, category |-> "Servicios",
     date |-> UserDate, type |-> "Manual", status |-> "Procesado"] }

ReportCollections == UNION { [1..n -> ReportReceipts] : n \in 0..MaxCollection }

ReportInit ==
  /\ receipts \in ReportCollections
  /\ categories = calculateCategories(receipts, InitialCategories)
  /\ effectDue = FALSE
  /\ loading = FALSE
  /\ storage = JSON_stringify(receipts)
  /\ pending = <<>>
  /\ now = MaxClock
  /\ calls = 0
  /\ last = [caller |-> "loadReceipts", id |-> 0, ok |-> TRUE, raised |-> FALSE, size |-> 0]
  /\ saved = [some |-> FALSE, value |-> <<>>]
  /\ form = ClosedForm
  /\ filters = NoFilters
  /\ report = InitialReport

\* a step of the report screen; `alert` is the alert that step showed
SetReport(rep) ==
  /\ report' = rep
  /\ UNCHANGED <<receipts, categories, effectDue, loading, storage, pending, now, calls, last, saved,
                 form, filters>>

toggleCategory ==
  \E category \in ReportCategories :
    SetReport([report EXCEPT
                 !.selectedCategories = newCategories(report.selectedCategories, category),
                 !.alert = ""])

generateReport ==
  IF report.startDate = "" \/ report.endDate = ""
    THEN SetReport([report EXCEPT !.alert = "Por favor seleccione un rango de fechas"])
    ELSE SetReport([report EXCEPT
                      !.reportPreview =
                         calculateReportData(reportFilteredReceipts(receipts, report), report),
                      !.alert = ""])

\* the PDF button of the preview, rendered once a report was generated
handleExportPDF ==
  /\ report.reportPreview # NoPreview
  /\ SetReport([report EXCEPT !.alert = "Funcionalidad de exportación a PDF en desarrollo"])

\* the Excel button of the preview
handleExportExcel ==
  /\ report.reportPreview # NoPreview
  /\ SetReport([report EXCEPT !.alert = "Funcionalidad de exportación a Excel en desarrollo"])

\* every handler of the screen, in any state of its cells
ReportNext ==
  \/ toggleCategory
  \/ generateReport
  \/ handleExportPDF
  \/ handleExportExcel

\* the handlers whose controls the screen renders in the states it reaches
\* from its mount: the export buttons belong to the preview, and with the
\* date cells at '' no preview is ever set (PreviewNeverShown)
MountedReportNext ==
  \/ toggleCategory
  \/ generateReport

ReportSpec == ReportInit /\ [][MountedReportNext]_vars

\* the screen as ReportNext drives it: the same behaviours as ReportSpec
ReportScreenSpec == ReportInit /\ [][ReportNext]_vars

-----------------------------------------------------------------------------
(* Queries: expressions over the `receipts` of the current render *)

\* receipts.reduce((sum, r) => sum + r.amount, 0)
getTotalExpenses(rs) == SumAmounts(rs)

getAveragePerReceiptUnguarded(rs) == Quotient(getTotalExpenses(rs), Len(rs))

getAveragePerReceipt(rs) ==
  LET total == getTotalExpenses(rs)
  IN  IF Len(rs) > 0 THEN Quotient(total, Len(rs)) ELSE Number(0)

getReceiptsByCategoryOthers(rs, category) ==
  SelectSeq(rs, LAMBDA r : r.category # category)

\* receipts.filter(r => r.category === category)
RECURSIVE getReceiptsByCategory(_, _)
getReceiptsByCategory(rs, category) ==
  IF rs = <<>> THEN <<>>
  ELSE (IF rs[1].category = category THEN <<rs[1]>> ELSE <<>>)
       \o getReceiptsByCategory(Tail(rs), category)

getReceiptsByDateRangeOpenEnd(rs, startDate, endDate) ==
  SelectSeq(rs, LAMBDA r : r.date >= startDate /\ r.date < endDate)

\* receipts.filter(r => receiptDate >= startDate && receiptDate <= endDate)
RECURSIVE getReceiptsByDateRange(_, _, _)
getReceiptsByDateRange(rs, startDate, endDate) ==
  IF rs = <<>> THEN <<>>
  ELSE (IF rs[1].date >= startDate /\ rs[1].date <= endDate THEN <<rs[1]>> ELSE <<>>)
       \o getReceiptsByDateRange(Tail(rs), startDate, endDate)

-----------------------------------------------------------------------------
(* Shapes of the state *)

TypeOK ==
  /\ Len(receipts) <= MaxCalls + 1
  /\ Len(categories) = 5
  /\ effectDue \in BOOLEAN
  /\ loading \in BOOLEAN
  /\ Len(pending) <= MaxPending
  /\ now \in 1..MaxClock

\* the report screen never shows a preview, so ReportNext and
\* MountedReportNext allow the same steps in every state it reaches
PreviewNeverShown ==
  /\ report.startDate = ""
  /\ report.endDate = ""
  /\ report.reportPreview = NoPreview
  /\ ~ENABLED handleExportPDF
  /\ ~ENABLED handleExportExcel

-----------------------------------------------------------------------------
(* Vocabulary of the properties *)

\* the step settles the request at the head of the queue, made by `caller`
Settles(caller) ==
  /\ pending # <<>>
  /\ pending' = Tail(pending)
  /\ Head(pending).caller = caller

Resolves(caller) == Settles(caller) /\ last'.ok

Rejects(caller) == Settles(caller) /\ ~last'.ok

HasId(rs, id) == \E i \in 1..Len(rs) : rs[i].id = id

\* the collection held in the Record Store, a never-written store being empty
StoredCollection(store) == IF store = Null THEN <<>> ELSE JSON_parse(store)

Mirrored(rs, store) == SameCollection(rs, StoredCollection(store))

AllZero(cats) == \A i \in 1..Len(cats) : cats[i].amount = 0 /\ cats[i].percentage = 0

-----------------------------------------------------------------------------
(* C1: when a create succeeds, the collection is the created receipt (the  *)
(* input's fields with the assigned id, date and status) followed by the   *)
(* receipts the call found, in the order it found them.                    *)

C1_CreatedAtHead ==
  [][Resolves("addReceipt") =>
       LET req == Head(pending) IN
         /\ Len(receipts') = Len(req.base) + 1
         /\ receipts'[1].id = req.id
         /\ receipts'[1].status = "Procesado"
         /\ \A k \in DOMAIN req.arg \ {"id", "date", "status"} :
              receipts'[1][k] = req.arg[k]
         /\ Tail(receipts') = req.base]_vars

\* a create has succeeded on a collection, and the result is not in date order
C1_Witness ==
  /\ last.caller = "addReceipt"
  /\ last.ok
  /\ Len(receipts) >= 2
  /\ receipts[1].id = last.id
  /\ receipts[1].date < receipts[2].date

(* C2: a mutation whose Record Store write fails changes neither the       *)
(* collection, nor the categories, nor the durable copy, and its caller    *)
(* gets the failure; a mutation reported as successful has been applied to *)
(* both the store and the collection.                                      *)

C2_FailedWriteAborts ==
  [][\A c \in Mutators :
       /\ Rejects(c) =>
            /\ receipts' = receipts
            /\ categories' = categories
            /\ storage' = storage
            /\ last'.raised
       /\ Resolves(c) =>
            /\ storage' = Head(pending).value
            /\ receipts' = Head(pending).newReceipts
            /\ ~last'.raised]_vars

\* a mutation's write has failed on a collection that holds receipts and
\* the caller's promise was rejected
C2_Witness ==
  /\ last.caller \in Mutators
  /\ ~last.ok
  /\ last.raised
  /\ receipts # <<>>
  /\ Mirrored(receipts, storage)

(* C3: mutations are serialized: no mutation is persisted between another  *)
(* mutation's read of the collection and the completion of its persist, so *)
(* of two mutations that both succeed the second is applied to the result  *)
(* of the first and neither effect is lost.                                *)

C3_MutationsSerialized ==
  [][\A c \in Mutators : Resolves(c) => Head(pending).seen = saved]_vars

(* C4 as claimed: once initialization has completed and nothing is in      *)
(* flight, the in-memory collection equals the collection in the store.    *)

C4_MirrorsOnceInitialized ==
  (~loading /\ pending = <<>>) => Mirrored(receipts, storage)

(* C4 amended: every load that read the store and every persisted mutation *)
(* leaves the in-memory collection equal to the collection in the store,   *)
(* and once they are equal every later step, failed ones included, keeps   *)
(* them equal.                                                             *)

C4_MirrorsOnceSynced ==
  [][((\E c \in Mutators \cup {"loadReceipts", "refreshReceipts"} : Resolves(c))
        \/ Mirrored(receipts, storage))
     => Mirrored(receipts', storage')]_vars

\* a failed write and a failed refresh after a persisted receipt, nothing in flight
C4_Witness ==
  /\ ~loading
  /\ pending = <<>>
  /\ saved.some
  /\ ~last.ok
  /\ receipts # <<>>
  /\ \E i \in 1..Len(receipts) : receipts[i] # StoredCollection(storage)[i]

(* C5: the amounts of the five category entries add up to the sum of the   *)
(* amounts of all receipts of the collection.                              *)

C5_CategoryAmountsSumToTotal ==
  categories[1].amount + categories[2].amount + categories[3].amount
    + categories[4].amount + categories[5].amount = SumAmounts(receipts)

(* C6: a successful update of an id the collection holds gives the receipt *)
(* of that id the patch's value on every patched field and its old value   *)
(* on every other field, and keeps the length of the collection, every     *)
(* position and every receipt of another id.                               *)

C6_UpdateMergesInPlace ==
  [][Resolves("updateReceipt") /\ HasId(Head(pending).base, Head(pending).id) =>
       LET req == Head(pending) IN
         /\ Len(receipts') = Len(req.base)
         /\ \A i \in 1..Len(req.base) :
              IF req.base[i].id = req.id
                THEN /\ DOMAIN receipts'[i] = DOMAIN req.base[i] \cup DOMAIN req.arg
                     /\ \A k \in DOMAIN req.arg : receipts'[i][k] = req.arg[k]
                     /\ \A k \in DOMAIN req.base[i] \ DOMAIN req.arg :
                          receipts'[i][k] = req.base[i][k]
                ELSE receipts'[i] = req.base[i]]_vars

\* an update has succeeded on the second of two receipts with different ids
C6_Witness ==
  /\ last.caller = "updateReceipt"
  /\ last.ok
  /\ Len(receipts) = 2
  /\ receipts[2].id = last.id
  /\ receipts[1].id # last.id
  /\ receipts[2].amount = 50

(* C7 as claimed: an update of an id the collection does not hold makes no *)
(* Record Store write.                                                     *)

C7_UnknownIdNotPersisted ==
  \A i \in 1..Len(pending) :
    pending[i].caller = "updateReceipt" => HasId(pending[i].base, pending[i].id)

(* C7 amended: an update of an id the collection does not hold raises no   *)
(* error of its own and leaves the contents as the call found them, but it *)
(* does write the collection to the Record Store: when the write succeeds  *)
(* the collection and the durable copy are the collection the call found,  *)
(* when it fails nothing changes and the failure reaches the caller.       *)

C7_UnknownIdRewritesUnchanged ==
  [][Settles("updateReceipt") /\ ~HasId(Head(pending).base, Head(pending).id) =>
       LET req == Head(pending) IN
         /\ req.api = "setItem"
         /\ IF last'.ok
              THEN /\ receipts' = req.base
                   /\ storage' = JSON_stringify(req.base)
                   /\ ~last'.raised
              ELSE /\ receipts' = receipts
                   /\ storage' = storage
                   /\ last'.raised]_vars

\* an update of an absent id has succeeded on a collection that holds
\* receipts, and nothing was raised to its caller
C7_Witness ==
  /\ last.caller = "updateReceipt"
  /\ last.ok
  /\ ~last.raised
  /\ receipts # <<>>
  /\ ~HasId(receipts, last.id)
  /\ storage = JSON_stringify(receipts)

(* C8: a successful delete leaves exactly the receipts of other ids that   *)
(* the call found, in their order and unchanged; when the call found no    *)
(* receipt of that id the collection is the one it found.                  *)

C8_DeleteRemovesOnlyThatId ==
  [][Resolves("deleteReceipt") =>
       LET req == Head(pending) IN
         /\ ~HasId(receipts', req.id)
         /\ receipts' = SelectSeq(req.base, LAMBDA r : r.id # req.id)
         /\ ~HasId(req.base, req.id) => receipts' = req.base]_vars

\* a delete has removed one of two receipts and kept the other
C8_Witness ==
  /\ last.caller = "deleteReceipt"
  /\ last.ok
  /\ last.size = 2
  /\ Len(receipts) = 1
  /\ receipts[1].id # last.id

(* C9: a successful clearAll leaves the collection empty and the durable   *)
(* copy the empty collection, and once the categories have been recomputed *)
(* every category has amount 0 and percentage 0.                           *)

C9_ClearAllEmpties ==
  [][/\ Resolves("clearAllReceipts") =>
          /\ receipts' = <<>>
          /\ storage' # Null
          /\ JSON_parse(storage') = <<>>
     /\ (last'.caller = "clearAllReceipts" /\ last'.ok /\ ~effectDue') =>
          /\ receipts' = <<>>
          /\ Len(categories') = 5
          /\ AllZero(categories')]_vars

\* a clearAll has succeeded on a collection that held receipts, and the
\* effect has brought the categories from their amounts down to 0
C9_Witness ==
  /\ last.caller = "clearAllReceipts"
  /\ last.ok
  /\ last.size > 0
  /\ receipts = <<>>
  /\ ~effectDue
  /\ AllZero(categories)

(* C10: a load that reads what the last successful save wrote leaves the   *)
(* collection equal to the saved one, field for field and in its order.    *)

C10_SaveLoadRoundTrip ==
  [][(Resolves("loadReceipts") \/ Resolves("refreshReceipts")) /\ saved.some =>
       SameCollection(receipts', saved.value)]_vars

\* a load after a save of two receipts, one of them with an undefined field
C10_Witness ==
  /\ last.caller = "refreshReceipts"
  /\ last.ok
  /\ saved.some
  /\ Len(saved.value) = 2
  /\ saved.value[1] # saved.value[2]
  /\ receipts # saved.value
  /\ SameCollection(receipts, saved.value)

(* C11: initialization always ends with the loading flag cleared, whatever *)
(* the read of the store gives; when the read fails or finds nothing the   *)
(* collection is left empty and the caller sees no error; the flag, once   *)
(* cleared, is never set again.                                            *)

C11_InitializationClearsLoading ==
  /\ [][Settles("loadReceipts") =>
          /\ ~loading'
          /\ ~last'.raised
          /\ (~last'.ok \/ storage = Null) => receipts' = <<>>]_vars
  /\ [][~loading => ~loading']_vars
  /\ <>[](~loading)

\* the initial read has failed on a store that holds a receipt
C11_Witness ==
  /\ last.caller = "loadReceipts"
  /\ ~last.ok
  /\ ~last.raised
  /\ ~loading
  /\ receipts = <<>>
  /\ storage # Null

(* C12 as claimed: the store is read once, at startup, and never after.    *)

C12_ReadOnlyAtStartup ==
  ~loading => \A i \in 1..Len(pending) : pending[i].api # "getItem"

(* C12 amended: the store is read on its own exactly once, at startup (the *)
(* read in flight while `loading` is set); every other read, and so every  *)
(* reload of the collection, is a refreshReceipts call; no mutation reads. *)

C12_ReadAtStartupAndOnRefresh ==
  /\ loading <=> (pending # <<>> /\ Head(pending).caller = "loadReceipts")
  /\ \A i \in 2..Len(pending) : pending[i].caller # "loadReceipts"
  /\ \A i \in 1..Len(pending) :
       pending[i].api = "getItem"
         <=> pending[i].caller \in {"loadReceipts", "refreshReceipts"}

\* a refresh after startup has replaced the collection by the stored one
C12_Witness ==
  /\ last.caller = "refreshReceipts"
  /\ last.ok
  /\ ~loading
  /\ saved.some
  /\ receipts # <<>>
  /\ receipts = JSON_parse(storage)
  /\ receipts # saved.value

(* C13: a successful create stores the receipt with the date the clock     *)
(* read during the call (new Date(), read after Date.now() gave the id)    *)
(* and status "Procesado", whatever id, date or status the input carried,  *)
(* and every other input field as supplied.                                *)

C13_CreateStampsIdDateStatus ==
  [][/\ (calls' = calls + 1 /\ pending'[Len(pending')].caller = "addReceipt") =>
          LET built == pending'[Len(pending')].newReceipts[1]
          IN  /\ built.id = now
              /\ built.date = now'
              /\ now <= now'
     /\ Resolves("addReceipt") =>
          LET req == Head(pending)
              created == receipts'[1]
          IN  /\ created = req.newReceipts[1]
              /\ created.id = req.id
              /\ created.date >= req.id
              /\ created.date <= now
              /\ created.status = "Procesado"
              /\ DOMAIN created = DOMAIN req.arg \cup {"id", "date", "status"}
              /\ \A k \in DOMAIN req.arg \ {"id", "date", "status"} :
                   created[k] = req.arg[k]]_vars

\* a create has succeeded for the input that carried an id, a date and a status
C13_Witness ==
  /\ last.caller = "addReceipt"
  /\ last.ok
  /\ receipts # <<>>
  /\ receipts[1].name = ReceiptWithId.name
  /\ receipts[1].id = last.id
  /\ receipts[1].id # ReceiptWithId.id
  /\ receipts[1].date # ReceiptWithId.date
  /\ receipts[1].date > receipts[1].id
  /\ receipts[1].status # ReceiptWithId.status

(* C14: a receipt created from the manual entry form is stored with the    *)
(* date the user supplied.                                                 *)

C14_ManualDateStored ==
  [][Resolves("addReceipt") =>
       /\ \E text \in DateTexts \cup {Today} : Head(pending).arg.date = ParsedDate(text)
       /\ receipts'[1].date = Head(pending).arg.date]_vars

(* C15: every receipt saved through the manual entry form, created or     *)
(* edited, has an amount equal to the sum of price x quantity over the     *)
(* products stored in it.                                                  *)

RECURSIVE LinesFrom(_, _)
LinesFrom(ps, i) ==
  IF i > Len(ps) THEN 0 ELSE ps[i].price * ps[i].quantity + LinesFrom(ps, i + 1)

C15_AmountIsSumOfProducts ==
  \A i \in 1..Len(receipts) :
    (receipts[i].type = "Manual" /\ "products" \in DOMAIN receipts[i]) =>
      receipts[i].amount = LinesFrom(receipts[i].products, 1)

(* C16: no two receipts of the collection have the same id.                *)

C16_IdsUnique ==
  \A i, j \in 1..Len(receipts) : i # j => receipts[i].id # receipts[j].id

(* C17: the clock never decreasing, ids are assigned in non-decreasing     *)
(* order (along the queue of creates, and after every id the collection    *)
(* holds), and the ids of the collection never increase from head to tail. *)

C17_IdsNonIncreasing ==
  /\ \A i, j \in 1..Len(receipts) : i < j => receipts[i].id >= receipts[j].id
  /\ \A i \in 1..Len(pending) :
       pending[i].caller = "addReceipt" =>
         /\ pending[i].id <= now
         /\ \A k \in 1..Len(receipts) : receipts[k].id <= pending[i].id
         /\ \A j \in 1..Len(pending) :
              (j < i /\ pending[j].caller = "addReceipt") =>
                pending[j].id <= pending[i].id

\* two receipts created at different clock readings
C17_Witness ==
  /\ last.caller = "addReceipt"
  /\ last.ok
  /\ Len(receipts) = 2
  /\ receipts[1].id > receipts[2].id
  /\ receipts[2].id >= 1

(* C18: the average per receipt is 0 on the empty collection and the total *)
(* of the amounts divided by the number of receipts otherwise, and it is   *)
(* always a number.                                                        *)

RECURSIVE AmountsFrom(_, _)
AmountsFrom(rs, i) == IF i > Len(rs) THEN 0 ELSE rs[i].amount + AmountsFrom(rs, i + 1)

C18_AverageGuarded ==
  LET avg == getAveragePerReceipt(receipts)
  IN  /\ avg.den > 0
      /\ receipts = <<>> => avg.num = 0
      /\ receipts # <<>> => avg.num * Len(receipts) = AmountsFrom(receipts, 1) * avg.den
      /\ getTotalExpenses(receipts) = AmountsFrom(receipts, 1)

\* receipts of 100 and 50: the average is 75
C18_Witness ==
  /\ Len(receipts) = 2
  /\ getTotalExpenses(receipts) = 150
  /\ getAveragePerReceipt(receipts).num = 75 * getAveragePerReceipt(receipts).den

(* C19: after a recomputation the category list is the five fixed          *)
(* categories in declaration order, each with the sum of the amounts of    *)
(* its receipts and with percentage round(100 * amount / total), or 0 when *)
(* the total is 0.                                                         *)

CategoryNames == <<"Alimentos", "Transporte", "Equipo de oficina", "Servicios", "Otros">>

C19_CategoriesRecomputed ==
  [][LET total == AmountsFrom(receipts, 1)
     IN  /\ Len(categories') = Len(CategoryNames)
         /\ \A i \in 1..Len(CategoryNames) :
              LET amount ==
                    AmountsFrom(SelectSeq(receipts,
                                          LAMBDA r : r.category = CategoryNames[i]), 1)
              IN  /\ categories'[i].name = CategoryNames[i]
                  /\ categories'[i].amount = amount
                  /\ categories'[i].percentage =
                       IF total > 0 THEN (200 * amount + total) \div (2 * total) ELSE 0]_vars

(* C20: byDateRange gives exactly the receipts dated within the bounds,    *)
(* both included, and byCategory exactly those of the category, each in    *)
(* collection order.                                                       *)

C20_QueriesFilterExactly ==
  /\ \A s, e \in 0..UserDate :
       getReceiptsByDateRange(receipts, s, e)
         = SelectSeq(receipts, LAMBDA r : s <= r.date /\ r.date <= e)
  /\ \A i \in 1..Len(InitialCategories) :
       getReceiptsByCategory(receipts, InitialCategories[i].name)
         = SelectSeq(receipts, LAMBDA r : r.category = InitialCategories[i].name)

\* two receipts, the first dated on the end bound, the second before the start
C20_Witness ==
  /\ Len(receipts) = 2
  /\ receipts[2].date < 1
  /\ receipts[1].date = MaxClock
  /\ receipts[1].category # receipts[2].category
  /\ getReceiptsByDateRange(receipts, 1, MaxClock) = <<receipts[1]>>
  /\ getReceiptsByCategory(receipts, receipts[2].category) = <<receipts[2]>>

(* C21: filtering is order independent: for every collection and every   *)
(* two criteria, filtering by the first and then by the second, by the     *)
(* second and then by the first, and by both at once give the same         *)
(* sequence.                                                               *)

Criteria == DOMAIN NoFilters

\* the filter cells with every criterion outside `names` left unset
Only(f, names) == [k \in Criteria |-> IF k \in names THEN f[k] ELSE NoFilters[k]]

\* the date bounds as arguments of the filter: '' as the cells hold it, or a
\* day; the other criteria are those of the state
StartTexts == {"", UserDayText}
EndTexts == {"", TodayText}

Between(f, start, end) == [f EXCEPT !.startDate = start, !.endDate = end]

C21_FilterOrderIndependent ==
  \A start \in StartTexts, end \in EndTexts :
    \A a, b \in Criteria :
      LET first == Only(Between(filters, start, end), {a})
          second == Only(Between(filters, start, end), {b})
          both == Only(Between(filters, start, end), {a, b})
      IN  /\ filteredReceipts(filteredReceipts(receipts, first), second)
               = filteredReceipts(receipts, both)
          /\ filteredReceipts(filteredReceipts(receipts, second), first)
               = filteredReceipts(receipts, both)

\* a category and an amount bound that each keep a different receipt
C21_Witness ==
  /\ Len(receipts) = 2
  /\ filters.selectedCategory = "Alimentos"
  /\ filters.maxAmount = "50"
  /\ filteredReceipts(receipts, Only(filters, {"selectedCategory"})) = <<receipts[1]>>
  /\ filteredReceipts(receipts, Only(filters, {"maxAmount"})) = <<receipts[2]>>
  /\ filteredReceipts(receipts, Only(filters, {"selectedCategory", "maxAmount"})) = <<>>

(* C22: the listing filter returns exactly the receipts that satisfy every *)
(* supplied criterion (search text, category, type, date range, amount     *)
(* range; "Todas" switches the category or the type criterion off; a       *)
(* receipt without a type counts as "Manual"), in their original order,    *)
(* and the whole collection when no criterion is supplied.                 *)

\* the name contains the text, letter case aside
NameContains(name, text) ==
  \/ text = ""
  \/ <<name, text>> \in {<<"Market", "MAR">>}

Satisfies(r, f) ==
  /\ NameContains(r.name, f.searchQuery)
  /\ f.selectedCategory = "Todas" \/ r.category = f.selectedCategory
  /\ \/ f.selectedType = "Todas"
     \/ "type" \in DOMAIN r /\ r.type = f.selectedType
     \/ "type" \notin DOMAIN r /\ f.selectedType = "Manual"
  /\ f.startDate = "" \/ r.date >= NewDate(f.startDate)
  /\ f.endDate = "" \/ r.date <= SetHours235959(NewDate(f.endDate))
  /\ f.minAmount = "" \/ parseFloat(f.minAmount).nan \/ r.amount >= parseFloat(f.minAmount).value
  /\ f.maxAmount = "" \/ parseFloat(f.maxAmount).nan \/ r.amount <= parseFloat(f.maxAmount).value

C22_ListingFilterIsConjunction ==
  /\ \A start \in StartTexts, end \in EndTexts :
       LET f == Between(filters, start, end)
       IN  filteredReceipts(receipts, f) = SelectSeq(receipts, LAMBDA r : Satisfies(r, f))
  /\ filteredReceipts(receipts, NoFilters) = receipts

\* a search text, a category and a type are set; the receipt without a type
\* passes as "Manual" and the other receipt is dropped
C22_Witness ==
  /\ Len(receipts) = 2
  /\ filters.searchQuery = "MAR"
  /\ filters.selectedType = "Manual"
  /\ filters.selectedCategory = "Todas"
  /\ "type" \notin DOMAIN receipts[2]
  /\ filteredReceipts(receipts, [filters EXCEPT !.searchQuery = ""]) = <<receipts[2]>>
  /\ filteredReceipts(receipts, filters) = <<>>

(* C24 as claimed: an amount bound that is empty or not a number filters   *)
(* nothing out, as if the bound were absent; a numeric bound is inclusive. *)

\* the texts that are a number
NumericTexts == {"50", "100"}

C24_NonNumericBoundIgnored ==
  /\ filters.minAmount \notin NumericTexts =>
       filteredReceipts(receipts, filters)
         = filteredReceipts(receipts, [filters EXCEPT !.minAmount = ""])
  /\ filters.maxAmount \notin NumericTexts =>
       filteredReceipts(receipts, filters)
         = filteredReceipts(receipts, [filters EXCEPT !.maxAmount = ""])

(* C24 amended: an amount bound that is empty or does not start with a     *)
(* number filters nothing out and is never taken as 0; a bound that starts *)
(* with a number is that number, whatever follows it, and is inclusive.    *)

\* the number a text starts with, -1 when it starts with none
LeadingNumber(text) ==
  CASE text \in {"50", "50abc"} -> 50
    [] text = "100" -> 100
    [] OTHER -> -1

C24_BoundIsLeadingNumber ==
  \A start \in StartTexts, end \in EndTexts :
    LET f == Between(filters, start, end)
        unbounded == filteredReceipts(receipts, [f EXCEPT !.minAmount = "",
                                                          !.maxAmount = ""])
        min == LeadingNumber(f.minAmount)
        max == LeadingNumber(f.maxAmount)
    IN  filteredReceipts(receipts, f)
          = SelectSeq(unbounded, LAMBDA r : /\ min >= 0 => r.amount >= min
                                            /\ max >= 0 => r.amount <= max)

\* a text that is no number as upper bound, and a lower bound equal to the
\* amount of the receipt that is kept
C24_Witness ==
  /\ Len(receipts) = 2
  /\ filters.maxAmount = "abc"
  /\ filters.minAmount = "100"
  /\ filteredReceipts(receipts, filters) = <<receipts[1]>>
  /\ receipts[1].amount = 100
  /\ receipts[2].amount < 100

(* C25: the category rows of a report are sorted by amount, largest first; *)
(* there is exactly one row for each category that has a receipt among the *)
(* filtered receipts, none for any other category, and no row has amount 0.*)
RowsInOrder(rows, rs) ==
  /\ \A i, j \in 1..Len(rows) : i < j => rows[i].amount >= rows[j].amount
  /\ \A i, j \in 1..Len(rows) : rows[i].category = rows[j].category => i = j
  /\ {rows[i].category : i \in 1..Len(rows)} = {rs[i].category : i \in 1..Len(rs)}
  /\ \A i \in 1..Len(rows) : rows[i].amount # 0

\* the date range as an argument of the report filter: '' as the cells hold
\* it, or a day
ReportStartTexts == {"", TodayText}
ReportEndTexts == {"", TodayText, UserDayText}

C25_ReportRowsSorted ==
  /\ \A start \in ReportStartTexts, end \in ReportEndTexts :
       LET rep == [report EXCEPT !.startDate = start, !.endDate = end]
           rs == reportFilteredReceipts(receipts, rep)
       IN  RowsInOrder(calculateReportData(rs, rep).expensesByCategory, rs)
  /\ report.reportPreview # NoPreview =>
       \E sub \in ReportCollections :
         /\ report.reportPreview = calculateReportData(sub, report)
         /\ RowsInOrder(report.reportPreview.expensesByCategory, sub)

\* two categories are selected and the receipts that pass the filter came
\* smallest first: the report over them has two rows, the larger one first
C25_Witness ==
  /\ Len(report.selectedCategories) = 2
  /\ Len(receipts) = 2
  /\ receipts[1].amount < receipts[2].amount
  /\ LET rs == reportFilteredReceipts(receipts, report)
         rows == calculateReportData(rs, report).expensesByCategory
     IN  /\ rs = receipts
         /\ Len(rows) = 2
         /\ rows[1].category = receipts[2].category
         /\ rows[1].amount = 100
         /\ rows[2].amount = 50

(* C26: in every collection the flows produce (load, manual create and     *)
(* edit, delete, clear) no receipt has a deposit type, every receipt has   *)
(* type "Manual", and so the deposits of every report are 0.               *)
C26_NoDeposits ==
  /\ \A i \in 1..Len(receipts) :
       "type" \in DOMAIN receipts[i] /\ receipts[i].type = "Manual"
  /\ \A selected \in {<<"Todas">>, <<"Alimentos">>, <<"Transporte", "Otros">>} :
       LET rep == [InitialReport EXCEPT !.selectedCategories = selected]
       IN  calculateReportData(reportFilteredReceipts(receipts, rep), rep).deposits = 0

\* an edit has been applied and a receipt with a positive amount is held
C26_Witness ==
  /\ last.caller = "updateReceipt"
  /\ last.ok
  /\ Len(receipts) > 0
  /\ receipts[1].amount > 0
  /\ calculateReportData(receipts, InitialReport).totalSpent > 0

(* C27: a manual entry submission with an empty merchant name, an empty   *)
(* date, no category, no named line item, a total <= 0 or a malformed date *)
(* never reaches the ledger: no create or update is invoked, and the       *)
(* collection and the durable copy stay as they were.                      *)

\* the texts that are a date written dd/mm/yyyy
WellFormedDates == {"15/01/2027", Today}

RECURSIVE TotalFrom(_, _)
TotalFrom(ps, i) ==
  IF i > Len(ps) THEN 0
  ELSE ps[i].price * (IF ps[i].quantity = 0 THEN 1 ELSE ps[i].quantity)
       + TotalFrom(ps, i + 1)

InvalidSubmission(f) ==
  \/ f.merchant \in {"", " "}
  \/ f.date \in {"", " "}
  \/ f.selectedCategory = NoCategory
  \/ \A i \in 1..Len(f.products) : f.products[i].name \in {"", " "}
  \/ TotalFrom(f.products, 1) <= 0
  \/ f.date \notin WellFormedDates

C27_InvalidSubmissionStaysLocal ==
  [][InvalidSubmission(form) =>
       /\ calls' = calls
       /\ Len(pending') <= Len(pending)
       /\ pending' = pending => receipts' = receipts /\ storage' = storage]_vars

(* C28: a mutation issued while the initial load is in progress loses no  *)
(* data: when the load and then the mutation have completed, the          *)
(* collection and the durable copy are equal and hold the mutation's       *)
(* effect on what the store held at startup.                               *)

\* the effect of the request on the collection `held`
EffectOn(req, held) ==
  CASE req.caller = "addReceipt" -> <<req.newReceipts[1]>> \o held
    [] req.caller = "deleteReceipt" -> SelectSeq(held, LAMBDA r : r.id # req.id)
    [] req.caller = "updateReceipt" ->
         [i \in 1..Len(held) |->
            IF held[i].id = req.id THEN Spread(held[i], req.arg) ELSE held[i]]
    [] OTHER -> <<>>

C28_MutationDuringLoadKeepsData ==
  [][\A c \in Mutators :
       (/\ Resolves(c)
        /\ Head(pending).loading
        /\ ~saved.some
        /\ last.caller = "loadReceipts"
        /\ last.ok) =>
         /\ Mirrored(receipts', storage')
         /\ SameCollection(receipts', EffectOn(Head(pending), StoredCollection(storage)))]_vars

(* C29: the selected categories of the report are never empty and contain  *)
(* "Todas" only when they are exactly ["Todas"]; toggling "Todas" resets   *)
(* them to ["Todas"], and deselecting the last specific category gives     *)
(* ["Todas"] again.                                                        *)
C29_SelectionNeverEmpty ==
  LET selected == report.selectedCategories
  IN  /\ Len(selected) > 0
      /\ InArray("Todas", selected) => selected = <<"Todas">>
      /\ \A category \in ReportCategories :
           LET next == newCategories(selected, category)
           IN  /\ Len(next) > 0
               /\ InArray("Todas", next) => next = <<"Todas">>
               /\ category = "Todas" => next = <<"Todas">>
               /\ (category # "Todas" /\ selected = <<category>>) => next = <<"Todas">>

\* two specific categories are selected, "Todas" is not
C29_Witness ==
  /\ Len(report.selectedCategories) = 2
  /\ ~InArray("Todas", report.selectedCategories)
  /\ report.selectedCategories[1] # report.selectedCategories[2]

(* C30: whenever a handler can run (the effect of the last commit has run, *)
(* as it has before any event is handled), a report over the whole         *)
(* collection (all categories, no date range or a range that covers every  *)
(* receipt) agrees with the category list of the ledger: each category has *)
(* the same amount and percentage in both, a category missing from the     *)
(* report has amount 0 and percentage 0 in the list, and the amounts of    *)
(* the report rows sum to its totalSpent.                                  *)
RECURSIVE SumRows(_)
SumRows(rows) == IF rows = <<>> THEN 0 ELSE rows[1].amount + SumRows(Tail(rows))

AgreesWithLedger(data) ==
  LET rows == data.expensesByCategory
  IN  /\ data.entries = Len(receipts)
      /\ \A i \in 1..Len(rows) :
           \E k \in 1..Len(categories) :
             /\ categories[k].name = rows[i].category
             /\ categories[k].amount = rows[i].amount
             /\ categories[k].percentage = rows[i].percentage
      /\ \A k \in 1..Len(categories) :
           (\A i \in 1..Len(rows) : rows[i].category # categories[k].name) =>
             categories[k].amount = 0 /\ categories[k].percentage = 0
      /\ SumRows(rows) = data.totalSpent

C30_ReportAgreesWithLedger ==
  ~effectDue =>
    \A rep \in {InitialReport,
                [InitialReport EXCEPT !.startDate = TodayText, !.endDate = UserDayText]} :
      AgreesWithLedger(calculateReportData(reportFilteredReceipts(receipts, rep), rep))

\* two receipts of two categories: 67% and 33% in the list and in the report
C30_Witness ==
  /\ ~effectDue
  /\ Len(receipts) = 2
  /\ receipts[1].category # receipts[2].category
  /\ receipts[1].amount # receipts[2].amount
  /\ LET rows == calculateReportData(receipts, InitialReport).expensesByCategory
     IN  /\ Len(rows) = 2
         /\ rows[1].percentage = 67
         /\ \E k \in 1..Len(categories) :
              categories[k].name = rows[1].category /\ categories[k].percentage = 67

====
